---------------------------- MODULE Spec2Model ----------------------------
(***************************************************************************)
(* A model of freedict-generator-lite.py: the TEI normalizer (preprocess,  *)
(* handle_includes, handle_super_entries), the entry and sense extractors  *)
(* (collect, collect_sense), the headword aggregation and render loop of   *)
(* the main program, and the catalog loop with create_pair.                *)
(*                                                                         *)
(* Values.  A text is a sequence of code points; Python's None, as the     *)
(* value of Element.text, is the one-element sequence None below, which no *)
(* text equals.  An Optional[List] field of DictEntry or DictSense is a    *)
(* sequence; the code never builds an empty list in such a field (a list   *)
(* is created with its first element), so the empty sequence stands for    *)
(* the field's None.  An Element is a record [id, ns, tag, text, href,     *)
(* kids]: id is the object's identity, ns and tag are the two parts of     *)
(* ElementTree's "{namespace}local" tag (ns = "" for a bare tag), href is  *)
(* the href attribute ("" when there is none).                             *)
(***************************************************************************)
EXTENDS Integers, Sequences, FiniteSets, TLC

VARIABLES
    pc,        \* position of the program
    crash,     \* name of the uncaught exception that ended the run, or ""
    element,   \* the entry subtree handed to collect()
    output,    \* the DictEntry collect() fills
    prefix,    \* the shared path-prefix list of collect()/collect_sense()
    files,     \* the include files: href -> sequence of root children
    doc,       \* the body element as parsed from the source document
    body,      \* the body element, normalized in place
    cursor,    \* index of the next child of body in the aggregation loop
    objs,      \* the DictEntry objects created so far (identity = index)
    entries,   \* the headword index: orth -> sequence of indices into objs
    keys,      \* sorted(entries.keys())
    k,         \* index into keys of the next headword to render
    succ,      \* the success counter of the render loop
    stderr,    \* what the render loop wrote to stderr
    disk,      \* the html files written: filename -> content
    database,  \* the catalog
    di,        \* index of the next catalog descriptor
    pair,      \* the pair create_pair() returned for the current descriptor
    ri,        \* index of the next release of the current descriptor
    status,    \* the exit status of the process, -1 while it runs
    cache,     \* the archives under data/, as (pair, version)
    done       \* per-dictionary steps carried out so far, in order

catVars == <<database, di, pair, ri, status, cache>>

vars == <<pc, crash, element, output, prefix, files, doc, body, cursor, objs,
          entries, keys, k, succ, stderr, disk, catVars, done>>

----------------------------------------------------------------------------
(* Bounds of the model.                                                    *)

\* non-root elements of an entry subtree handed to collect()
MaxNodes == 3

----------------------------------------------------------------------------
(* Python values.                                                          *)

None == << -1 >>

NoneList == << >>

TEI == "http://www.tei-c.org/ns/1.0"

XI == "http://www.w3.org/2001/XInclude"

\* Element.tag as ElementTree spells it
TagOf(e) == IF e.ns = "" THEN e.tag ELSE "{" \o e.ns \o "}" \o e.tag

RECURSIVE Join(_)
\* ".".join(prefix)
Join(p) ==
    IF Len(p) = 0 THEN ""
    ELSE IF Len(p) = 1 THEN p[1]
    ELSE p[1] \o "." \o Join(Tail(p))

Pop(p) == SubSeq(p, 1, Len(p) - 1)

----------------------------------------------------------------------------
(* Bounded sets of parsed documents.  A tree of n elements below a root is *)
(* given by its pre-order parent function and a label per element; ids are *)
(* the pre-order numbers, so document order is id order.                   *)

RECURSIVE Anc(_, _)
Anc(p, i) == IF i = 0 THEN {0} ELSE {i} \cup Anc(p, p[i])

Shapes(n) ==
    { p \in [1..n -> 0..(n - 1)] :
        \A i \in 1..n : IF i = 1 THEN p[i] = 0 ELSE p[i] \in Anc(p, i - 1) }

RECURSIVE BuildKids(_, _, _, _, _, _)
RECURSIVE Build(_, _, _, _, _)
Build(p, lab, n, base, i) ==
    [id |-> base + i, ns |-> lab[i].ns, tag |-> lab[i].tag,
     text |-> lab[i].text, href |-> lab[i].href,
     kids |-> BuildKids(p, lab, n, base, i, i + 1) \o lab[i].kids]

BuildKids(p, lab, n, base, i, j) ==
    IF j > n THEN << >>
    ELSE (IF p[j] = i THEN << Build(p, lab, n, base, j) >> ELSE << >>)
         \o BuildKids(p, lab, n, base, i, j + 1)

\* the children of a root with n descendants built from (p, lab)
Forest(p, lab, n, base) == BuildKids(p, lab, n, base, 0, 1)

Lab(ns, tag, text) ==
    [id |-> 0, ns |-> ns, tag |-> tag, text |-> text, href |-> "",
     kids |-> << >>]

TextA == << 97 >>

TextB == << 98 >>

\* the labels of an entry subtree for the four list fields of collect():
\* the tags it looks for, with and without text, and a sense
EntryLabels ==
    { Lab("", "form", None), Lab("", "gramGrp", None), Lab("", "sense", None),
      Lab("", "orth", TextA), Lab("", "orth", None),
      Lab("", "pron", TextA), Lab("", "pron", None),
      Lab("", "gen", TextA), Lab("", "gen", None),
      Lab("", "pos", TextA), Lab("", "pos", TextB), Lab("", "pos", None) }

\* the labels of an entry subtree for collect_sense()
SenseLabels ==
    { Lab("", "sense", None), Lab("", "cit", None), Lab("", "form", None),
      Lab("", "quote", TextA), Lab("", "quote", None),
      Lab("", "def", TextB), Lab("", "def", None), Lab("", "orth", TextA) }

----------------------------------------------------------------------------
(* DictSense, DictEntry and the extractors.                                *)

NewSense == [quotes |-> NoneList, defs |-> NoneList]

NewEntry == [orth |-> NoneList, pron |-> NoneList, gen |-> NoneList,
             pos |-> NoneList, senses |-> NoneList]

\* "x = [v]" when x is None, else "x.append(v)"
Add(list, v) == IF list = NoneList THEN << v >> ELSE Append(list, v)

InList(v, list) == \E i \in 1..Len(list) : list[i] = v

\* collect_sense() matching the def path by its last two segments
SenseFieldLoose(sense, path, text) ==
    IF path = "entry.sense.cit.quote"
    THEN [sense EXCEPT !.quotes = Add(sense.quotes, text)]
    ELSE IF path \in {"entry.sense.sense.def", "entry.sense.def"}
    THEN [sense EXCEPT !.defs = Add(sense.defs, text)]
    ELSE sense

\* the field rules of collect_sense() for one element
SenseField(sense, path, text) ==
    IF path = "entry.sense.cit.quote"
    THEN [sense EXCEPT !.quotes = Add(sense.quotes, text)]
    ELSE IF path = "entry.sense.sense.def"
    THEN [sense EXCEPT !.defs = Add(sense.defs, text)]
    ELSE sense

RECURSIVE CollectSenseKids(_, _, _)
RECURSIVE CollectSense(_, _, _)
\* collect_sense(element, sense, prefix): the sense and the prefix afterwards
CollectSense(e, sense, pre) ==
    LET pushed == Append(pre, TagOf(e))
        s1 == SenseField(sense, Join(pushed), e.text)
        r == CollectSenseKids(e.kids, s1, pushed)
    IN  [sense |-> r.sense, prefix |-> Pop(r.prefix)]

CollectSenseKids(kids, sense, pre) ==
    IF Len(kids) = 0 THEN [sense |-> sense, prefix |-> pre]
    ELSE LET r == CollectSense(Head(kids), sense, pre)
         IN  CollectSenseKids(Tail(kids), r.sense, r.prefix)

\* collect() without the membership test on pos
EntryFieldNoDedup(out, path, text) ==
    IF path = "entry.form.orth"
    THEN IF text # None THEN [out EXCEPT !.orth = Add(out.orth, text)] ELSE out
    ELSE IF path = "entry.form.pron"
    THEN IF text # None THEN [out EXCEPT !.pron = Add(out.pron, text)] ELSE out
    ELSE IF path = "entry.gramGrp.gen"
    THEN [out EXCEPT !.gen = Add(out.gen, text)]
    ELSE IF path = "entry.gramGrp.pos"
    THEN IF text # None THEN [out EXCEPT !.pos = Add(out.pos, text)] ELSE out
    ELSE out

\* the field rules of collect() for orth, pron, gen and pos
EntryField(out, path, text) ==
    IF path = "entry.form.orth"
    THEN IF text # None THEN [out EXCEPT !.orth = Add(out.orth, text)] ELSE out
    ELSE IF path = "entry.form.pron"
    THEN IF text # None THEN [out EXCEPT !.pron = Add(out.pron, text)] ELSE out
    ELSE IF path = "entry.gramGrp.gen"
    THEN [out EXCEPT !.gen = Add(out.gen, text)]
    ELSE IF path = "entry.gramGrp.pos"
    THEN IF text # None
         THEN IF out.pos = NoneList THEN [out EXCEPT !.pos = << text >>]
              ELSE IF ~InList(text, out.pos)
                   THEN [out EXCEPT !.pos = Append(out.pos, text)]
                   ELSE out
         ELSE out
    ELSE out

RECURSIVE CollectKids(_, _, _)
RECURSIVE Collect(_, _, _)
\* collect(element, output, prefix): the output and the prefix afterwards
Collect(e, out, pre) ==
    LET pushed == Append(pre, TagOf(e))
        path == Join(pushed)
    IN  IF path = "entry.sense"
        THEN LET r == CollectSense(e, NewSense, Pop(pushed))
             IN  [output |-> [out EXCEPT !.senses = Add(out.senses, r.sense)],
                  prefix |-> r.prefix]
        ELSE LET r == CollectKids(e.kids, EntryField(out, path, e.text), pushed)
             IN  [output |-> r.output, prefix |-> Pop(r.prefix)]

CollectKids(kids, out, pre) ==
    IF Len(kids) = 0 THEN [output |-> out, prefix |-> pre]
    ELSE LET r == Collect(Head(kids), out, pre)
         IN  CollectKids(Tail(kids), r.output, r.prefix)

----------------------------------------------------------------------------
(* The extractor on its own: collect(element, DictEntry(), []) on every    *)
(* entry subtree of at most MaxNodes elements below the entry.             *)

NoCatalog ==
    /\ database = << >> /\ di = 0 /\ pair = << >> /\ ri = 0 /\ status = -1
    /\ cache = {}

Idle ==
    /\ files = << >> /\ doc = << >> /\ body = << >> /\ cursor = 0 /\ objs = << >>
    /\ entries = << >> /\ keys = << >> /\ k = 0 /\ succ = 0
    /\ stderr = << >> /\ disk = << >> /\ NoCatalog /\ done = << >>

EntryTrees(labels) ==
    { [id |-> 0, ns |-> "", tag |-> "entry", text |-> None, href |-> "",
       kids |-> Forest(t[1], t[2], Len(t[2]), 0)] :
        t \in UNION { Shapes(n) \X [1..n -> labels] : n \in 0..MaxNodes } }

InitCollect ==
    /\ pc = "collect"
    /\ crash = ""
    /\ element \in EntryTrees(EntryLabels)
    /\ output = NewEntry
    /\ prefix = << >>
    /\ Idle

InitSense ==
    /\ pc = "collect"
    /\ crash = ""
    /\ element \in EntryTrees(SenseLabels)
    /\ output = NewEntry
    /\ prefix = << >>
    /\ Idle

\* entry = DictEntry(); collect(element, entry, [])
RunCollect ==
    /\ pc = "collect"
    /\ LET r == Collect(element, output, prefix)
       IN  output' = r.output /\ prefix' = r.prefix
    /\ pc' = "collected"
    /\ UNCHANGED <<crash, element, files, doc, body, cursor, objs, entries,
                   keys, k, succ, stderr, disk, catVars, done>>

NextCollect == RunCollect

SpecCollect == InitCollect /\ [][NextCollect]_vars

SpecSense == InitSense /\ [][NextCollect]_vars

----------------------------------------------------------------------------
(* What the extractor is to produce, read off the tree: every element in   *)
(* pre-order with the dotted path of the tags from the root down to it.    *)

RECURSIVE WalkKids(_, _)
RECURSIVE Walk(_, _)
Walk(e, chain) ==
    LET c == Append(chain, TagOf(e))
    IN  << [path |-> Join(c), text |-> e.text] >> \o WalkKids(e.kids, c)

WalkKids(kids, chain) ==
    IF Len(kids) = 0 THEN << >>
    ELSE Walk(Head(kids), chain) \o WalkKids(Tail(kids), chain)

RECURSIVE TextsAt(_, _)
\* the texts, in order, of the walked elements at exactly this path
TextsAt(w, path) ==
    IF Len(w) = 0 THEN << >>
    ELSE (IF Head(w).path = path THEN << Head(w).text >> ELSE << >>)
         \o TextsAt(Tail(w), path)

RECURSIVE NonAbsent(_)
NonAbsent(s) ==
    IF Len(s) = 0 THEN << >>
    ELSE (IF Head(s) = None THEN << >> ELSE << Head(s) >>) \o NonAbsent(Tail(s))

RECURSIVE FirstOccurrences(_, _)
FirstOccurrences(s, seen) ==
    IF Len(s) = 0 THEN << >>
    ELSE IF Head(s) \in seen THEN FirstOccurrences(Tail(s), seen)
    ELSE << Head(s) >> \o FirstOccurrences(Tail(s), seen \cup {Head(s)})

RECURSIVE SenseKids(_)
\* the direct children tagged sense, in document order
SenseKids(kids) ==
    IF Len(kids) = 0 THEN << >>
    ELSE (IF TagOf(Head(kids)) = "sense" THEN << Head(kids) >> ELSE << >>)
         \o SenseKids(Tail(kids))

\* C1: after collect() of an entry subtree, orth and pron are the non-absent
\* texts at exactly entry.form.orth and entry.form.pron, gen is every text
\* (absent ones included) at exactly entry.gramGrp.gen, and pos is the
\* non-absent texts at exactly entry.gramGrp.pos with each value kept at its
\* first occurrence only, all in pre-order; no other element adds to them.
C1_FieldLists ==
    pc = "collected" =>
        LET w == Walk(element, << >>)
        IN  /\ output.orth = NonAbsent(TextsAt(w, "entry.form.orth"))
            /\ output.pron = NonAbsent(TextsAt(w, "entry.form.pron"))
            /\ output.gen = TextsAt(w, "entry.gramGrp.gen")
            /\ output.pos =
                 FirstOccurrences(NonAbsent(TextsAt(w, "entry.gramGrp.pos")), {})

\* an orth that comes after a sense sibling has been collected
C1_Witness ==
    /\ pc = "collected"
    /\ \E i, j \in 1..Len(element.kids) :
         /\ i < j
         /\ element.kids[i].tag = "sense"
         /\ element.kids[j].tag = "form"
    /\ output.orth = << TextA >>

----------------------------------------------------------------------------
(* The TEI normalizer.  remove_namespace() also writes "ERROR: <tag>" to   *)
(* stderr for a tag outside the TEI namespace; that line is not modelled.  *)

\* a body of the normalizer on its own has at most this many descendants
MaxBodyNodes == 3

RECURSIVE FindAllKids(_, _, _)
FindAllKids(kids, ns, tag) ==
    IF Len(kids) = 0 THEN << >>
    ELSE (IF Head(kids).ns = ns /\ Head(kids).tag = tag
          THEN << Head(kids) >> ELSE << >>)
         \o FindAllKids(Head(kids).kids, ns, tag)
         \o FindAllKids(Tail(kids), ns, tag)

\* element.findall(".//{ns}tag"): the matching descendants in document order
FindAll(e, ns, tag) == FindAllKids(e.kids, ns, tag)

RemoveNamespace(e) == IF e.ns = TEI THEN [e EXCEPT !.ns = ""] ELSE e

RECURSIVE Renumber(_, _)
\* a parse creates new objects: the file's elements with fresh identities
Renumber(kids, base) ==
    [i \in 1..Len(kids) |->
        [kids[i] EXCEPT !.id = base + @, !.kids = Renumber(@, base)]]

\* ElementTree.parse(path + "/" + href).getroot(), as its list of children
ParseRoot(fs, href, base) == Renumber(fs[href], base)

RECURSIVE IncludedEntries(_, _, _)
\* the loop of handle_includes() over the direct children of parent
IncludedEntries(kids, fs, i) ==
    IF i > Len(kids) THEN << >>
    ELSE (IF kids[i].ns = XI /\ kids[i].tag = "include"
          THEN ParseRoot(fs, kids[i].href, 100 * i) ELSE << >>)
         \o IncludedEntries(kids, fs, i + 1)

\* handle_includes(parent, path); clear() also drops the text and attributes
HandleIncludes(parent, fs) ==
    [parent EXCEPT !.kids = IncludedEntries(parent.kids, fs, 1),
                   !.text = None, !.href = ""]

HasKid(e, id) == \E i \in 1..Len(e.kids) : e.kids[i].id = id

RECURSIVE RemoveFirst(_, _)
\* list.remove(x) for an x that is in the list
RemoveFirst(kids, id) ==
    IF Head(kids).id = id THEN Tail(kids)
    ELSE << Head(kids) >> \o RemoveFirst(Tail(kids), id)

RECURSIVE FlattenLoop(_, _)
\* the loop of handle_super_entries(): append the children of each superEntry
\* to parent, then parent.remove(super), which raises ValueError when super
\* is not a direct child of parent
FlattenLoop(parent, supers) ==
    IF Len(supers) = 0 THEN [el |-> parent, err |-> ""]
    ELSE LET s == Head(supers)
             appended == [parent EXCEPT !.kids = @ \o s.kids]
         IN  IF HasKid(appended, s.id)
             THEN FlattenLoop([appended EXCEPT !.kids = RemoveFirst(@, s.id)],
                              Tail(supers))
             ELSE [el |-> appended, err |-> "ValueError"]

\* handle_super_entries(parent)
HandleSuperEntries(parent) ==
    FlattenLoop(parent, FindAll(parent, TEI, "superEntry"))

RECURSIVE PreprocessKids(_, _, _)
RECURSIVE Preprocess(_, _)
\* preprocess(element, path): the element afterwards, or as it was left when
\* an exception (err) ended the call
Preprocess(e, fs) ==
    LET e1 == RemoveNamespace(e)
        e2 == IF TagOf(e1) = "body" /\ Len(FindAll(e1, XI, "include")) > 0
              THEN HandleIncludes(e1, fs) ELSE e1
        r3 == IF TagOf(e2) = "body" /\ Len(FindAll(e2, TEI, "superEntry")) > 0
              THEN HandleSuperEntries(e2) ELSE [el |-> e2, err |-> ""]
    IN  IF r3.err # "" THEN r3
        ELSE LET r4 == PreprocessKids(r3.el.kids, fs, 1)
             IN  [el |-> [r3.el EXCEPT !.kids = r4.kids], err |-> r4.err]

PreprocessKids(kids, fs, i) ==
    IF i > Len(kids) THEN [kids |-> kids, err |-> ""]
    ELSE LET r == Preprocess(kids[i], fs)
             done1 == [kids EXCEPT ![i] = r.el]
         IN  IF r.err # "" THEN [kids |-> done1, err |-> r.err]
             ELSE PreprocessKids(done1, fs, i + 1)

\* body = preprocess(body, base_path)
PreprocessBody ==
    /\ pc = "parsed"
    /\ LET r == Preprocess(body, files)
       IN  /\ body' = r.el
           /\ crash' = r.err
           /\ pc' = IF r.err = "" THEN "normalized" ELSE "crashed"
    /\ UNCHANGED <<element, output, prefix, files, doc, cursor, objs, entries,
                   keys, k, succ, stderr, disk, catVars, done>>

\* an element of the TEI namespace with these children
El(tag, text, kids) == [Lab(TEI, tag, text) EXCEPT !.kids = kids]

Orth(text) == El("orth", text, << >>)

Form(orths) == El("form", None, orths)

Entry(kids) == El("entry", None, kids)

\* the auxiliary files of the dictionary's directory
IncludeFiles ==
    [h \in {"a.tei", "b.tei"} |->
        IF h = "a.tei"
        THEN << [Entry(<< Form(<< Orth(TextA) >>) >>) EXCEPT !.id = 1] >>
        ELSE << [Entry(<< Form(<< Orth(TextB) >>) >>) EXCEPT !.id = 1],
                [Entry(<< >>) EXCEPT !.id = 2] >>]

Include(href) == [Lab(XI, "include", None) EXCEPT !.href = href]

BodyLabels ==
    { Lab(TEI, "entry", None), Lab(TEI, "superEntry", None),
      Lab(TEI, "div", None), Include("a.tei"), Include("b.tei") }

Bodies(labels, max) ==
    { [id |-> 0, ns |-> TEI, tag |-> "body", text |-> None, href |-> "",
       kids |-> Forest(t[1], t[2], Len(t[2]), 0)] :
        t \in UNION { Shapes(n) \X [1..n -> labels] : n \in 0..max } }

InitNormalize ==
    /\ pc = "parsed"
    /\ crash = ""
    /\ files = IncludeFiles
    /\ doc \in Bodies(BodyLabels, MaxBodyNodes)
    /\ body = doc
    /\ element = << >> /\ output = << >> /\ prefix = << >>
    /\ cursor = 0 /\ objs = << >> /\ entries = << >> /\ keys = << >>
    /\ k = 0 /\ succ = 0 /\ stderr = << >> /\ disk = << >>
    /\ NoCatalog /\ done = << >>

NextNormalize == PreprocessBody

SpecNormalize == InitNormalize /\ [][NextNormalize]_vars

RECURSIVE TaggedBelowKids(_, _)
\* whether some element of these subtrees has this local tag name
TaggedBelowKids(kids, tag) ==
    \E i \in 1..Len(kids) :
        kids[i].tag = tag \/ TaggedBelowKids(kids[i].kids, tag)

RECURSIVE Content(_)
\* a list of subtrees without identities and namespaces
Content(kids) ==
    [i \in 1..Len(kids) |->
        [tag |-> kids[i].tag, text |-> kids[i].text, href |-> kids[i].href,
         kids |-> Content(kids[i].kids)]]

\* the body when flattening starts: namespace stripped, includes resolved
BeforeFlatten ==
    IF Len(FindAll(doc, XI, "include")) > 0
    THEN HandleIncludes(RemoveNamespace(doc), files)
    ELSE RemoveNamespace(doc)

\* C3: once preprocess() has acted on a body, no superEntry element remains
\* anywhere below the body, and every child of a superEntry (other than a
\* nested superEntry, whose own children are promoted) is a direct child of
\* the body, at whatever depth the superEntry was.
C3_AllSuperEntriesFlattened ==
    pc \in {"normalized", "crashed"} =>
        /\ ~TaggedBelowKids(body.kids, "superEntry")
        /\ LET supers == FindAll(BeforeFlatten, TEI, "superEntry")
           IN  \A i \in 1..Len(supers) : \A j \in 1..Len(supers[i].kids) :
                  supers[i].kids[j].tag # "superEntry"
                      => HasKid(body, supers[i].kids[j].id)

RECURSIVE Spliced(_, _)
\* the root children of the files the directives name, in document order
Spliced(directives, fs) ==
    IF Len(directives) = 0 THEN << >>
    ELSE fs[Head(directives).href] \o Spliced(Tail(directives), fs)

\* C4: once preprocess() has acted on a body that contains one or more
\* inclusion directives, the body's children are the root children of the
\* referenced files, in the directives' document order, and no inclusion
\* directive remains in the body.
C4_IncludesResolved ==
    (pc \in {"normalized", "crashed"} /\ Len(FindAll(doc, XI, "include")) > 0) =>
        /\ Content(body.kids) = Content(Spliced(FindAll(doc, XI, "include"), files))
        /\ ~TaggedBelowKids(body.kids, "include")

----------------------------------------------------------------------------
(* One dictionary: normalize the body, collect every entry child into the  *)
(* headword index, render a page per headword, report, copy the css.       *)

\* a dictionary body has at most this many elements besides the entries' own
\* content
MaxDictNodes == 3

Space == 32

Underscore == 95

\* "a b"
TextAB == << 97, Space, 98 >>

\* "a_b"
TextA_B == << 97, Underscore, 98 >>

\* the entries of a dictionary body (each with its content) and superEntry
DictLabels ==
    { Entry(<< Form(<< Orth(TextAB) >>) >>),
      Entry(<< Form(<< Orth(TextA_B), El("pron", TextA, << >>) >>),
               El("gramGrp", None,
                  << El("pos", TextB, << >>), El("gen", TextA, << >>) >>),
               El("sense", None,
                  << El("cit", None, << El("quote", None, << >>) >>),
                     El("sense", None, << El("def", TextB, << >>) >>) >>) >>),
      Entry(<< Form(<< Orth(TextAB), Orth(TextAB) >>) >>),
      Entry(<< >>),
      Entry(<< Form(<< Orth(TextAB) >>),
               El("gramGrp", None, << El("gen", None, << >>) >>) >>),
      Lab(TEI, "superEntry", None) }

\* the mapping { key: value, **m }
Put(m, key, v) == [x \in DOMAIN m \cup {key} |-> IF x = key THEN v ELSE m[x]]

\* inserting the entry at the head of its bucket
BucketAddFront(m, orth, ref) ==
    IF orth \in DOMAIN m THEN Put(m, orth, << ref >> \o m[orth])
    ELSE Put(m, orth, << ref >>)

\* "entries[orth].append(entry)" or "entries[orth] = [entry]"
BucketAdd(m, orth, ref) ==
    IF orth \in DOMAIN m THEN Put(m, orth, Append(m[orth], ref))
    ELSE Put(m, orth, << ref >>)

RECURSIVE MergeByOrth(_, _, _)
\* "for orth in entry.orth", when entry.orth is not None
MergeByOrth(m, orths, ref) ==
    IF Len(orths) = 0 THEN m
    ELSE MergeByOrth(BucketAdd(m, Head(orths), ref), Tail(orths), ref)

\* one iteration of "for element in body"
CollectEntry ==
    /\ pc = "normalized"
    /\ cursor <= Len(body.kids)
    /\ LET el == body.kids[cursor]
           entry == Collect(el, NewEntry, << >>).output
       IN  IF TagOf(el) = "entry"
           THEN /\ objs' = Append(objs, [elem |-> el.id, val |-> entry])
                /\ entries' = IF entry.orth # NoneList
                              THEN MergeByOrth(entries, entry.orth, Len(objs) + 1)
                              ELSE entries
           ELSE UNCHANGED <<objs, entries>>
    /\ cursor' = cursor + 1
    /\ UNCHANGED <<pc, crash, element, output, prefix, files, doc, body, keys,
                   k, succ, stderr, disk, catVars, done>>

RECURSIVE LexLess(_, _)
\* a < b for Python strings: by code point, a proper prefix first
LexLess(a, b) ==
    IF Len(b) = 0 THEN FALSE
    ELSE IF Len(a) = 0 THEN TRUE
    ELSE IF Head(a) # Head(b) THEN Head(a) < Head(b)
    ELSE LexLess(Tail(a), Tail(b))

RECURSIVE Sorted(_)
\* sorted(S) for a set of strings
Sorted(S) ==
    IF S = {} THEN << >>
    ELSE LET m == CHOOSE x \in S : \A y \in S \ {x} : LexLess(x, y)
         IN  << m >> \o Sorted(S \ {m})

\* the lines before the render loop: generate ..., total, succ = 0
BeginRender ==
    /\ pc = "normalized"
    /\ cursor > Len(body.kids)
    /\ stderr' = Append(stderr, [kind |-> "generate", name |-> << >>])
    /\ keys' = Sorted(DOMAIN entries)
    /\ k' = 1
    /\ succ' = 0
    /\ pc' = "render"
    /\ UNCHANGED <<crash, element, output, prefix, files, doc, body, cursor,
                   objs, entries, disk, catVars, done>>

\* the DictEntry objects of a bucket
EntryList(orth) == [i \in 1..Len(entries[orth]) |-> objs[entries[orth][i]].val]

Line(kind, n, text, pos, gen) ==
    [kind |-> kind, n |-> n, text |-> text, pos |-> pos, gen |-> gen]

\* an f-string's "{x}": str(x), which is "None" for None
Str(v) == IF v = None THEN << 78, 111, 110, 101 >> ELSE v

RECURSIVE JoinSp(_)
\* ' '.join(list), for a list of strings
JoinSp(list) ==
    IF Len(list) = 0 THEN << >>
    ELSE IF Len(list) = 1 THEN list[1]
    ELSE list[1] \o << Space >> \o JoinSp(Tail(list))

\* ['[%s]' % pos for pos in list]
Bracketed(list) == [i \in 1..Len(list) |-> << 91 >> \o list[i] \o << 93 >>]

TextLines(kind, list) ==
    [i \in 1..Len(list) |-> Line(kind, 0, Str(list[i]), << >>, << >>)]

RECURSIVE SenseLines(_, _, _, _)
\* the loop over entry.senses: the numbered line with pos_gen, the quotes,
\* the defs
SenseLines(senses, i, pos, gen) ==
    IF i > Len(senses) THEN << >>
    ELSE << Line("sense", i, << >>, pos, gen) >>
         \o TextLines("quote", senses[i].quotes)
         \o TextLines("def", senses[i].defs)
         \o SenseLines(senses, i + 1, pos, gen)

\* the lines one entry adds to the page; ' '.join(entry.gen) raises
\* TypeError when the list holds None, after the title and the
\* pronunciation have been written
EntryLines(orth, n, index, entry) ==
    LET title == << Line("h3", IF n = 1 THEN 0 ELSE index, orth, << >>, << >>) >>
        pron == IF entry.pron # NoneList
                THEN << Line("pron", 0, JoinSp(entry.pron), << >>, << >>) >>
                ELSE << >>
    IN  IF entry.gen # NoneList /\ InList(None, entry.gen)
        THEN [lines |-> title \o pron, err |-> "TypeError"]
        ELSE [lines |-> title \o pron
                        \o SenseLines(entry.senses, 1,
                                      IF entry.pos # NoneList
                                      THEN JoinSp(Bracketed(entry.pos)) ELSE << >>,
                                      IF entry.gen # NoneList
                                      THEN JoinSp(entry.gen) ELSE << >>),
              err |-> ""]

RECURSIVE PageLines(_, _, _)
\* "for index, entry in enumerate(entries, start=1)"
PageLines(orth, list, i) ==
    IF i > Len(list) THEN [lines |-> << >>, err |-> ""]
    ELSE LET r == EntryLines(orth, Len(list), i, list[i])
         IN  IF r.err # "" THEN r
             ELSE LET rest == PageLines(orth, list, i + 1)
                  IN  [lines |-> r.lines \o rest.lines, err |-> rest.err]

\* what a call of generate_html() that opened its file leaves in it
Page(orth, list) ==
    LET r == PageLines(orth, list, 1)
        head == << Line("head", 0, << >>, << >>, << >>) >>
    IN  IF r.err # "" THEN [lines |-> head \o r.lines, err |-> r.err]
        ELSE [lines |-> head \o r.lines \o << Line("foot", 0, << >>, << >>, << >>) >>,
              err |-> ""]

\* "%s/%s.html" % (html_path, name), within the dictionary's directory
FileName(name) == name \o << 46, 104, 116, 109, 108 >>

\* generate_html(orth, entries, filename); opens says whether open() succeeds
GenerateHtml(orth, list, filename, opens, st) ==
    IF ~opens
    THEN [disk |-> st.disk,
          stderr |-> Append(st.stderr, [kind |-> "warn", name |-> filename]),
          ret |-> 0, err |-> ""]
    ELSE LET page == Page(orth, list)
         IN  [disk |-> Put(st.disk, filename, page.lines), stderr |-> st.stderr,
              ret |-> IF page.err = "" THEN 1 ELSE 0, err |-> page.err]

\* orth.replace(" ", "_")
Converted(orth) ==
    [i \in 1..Len(orth) |-> IF orth[i] = Space THEN Underscore ELSE orth[i]]

\* n1 and n2
PyAnd(n1, n2) == IF n1 = 0 THEN n1 ELSE n2

\* n1 or n2
PyOr(n1, n2) == IF n1 # 0 THEN n1 ELSE n2

\* generate_orth(orth, entries, html_path)
GenerateOrthCall(orth, list, opens1, opens2, st) ==
    IF orth = Converted(orth)
    THEN GenerateHtml(orth, list, FileName(orth), opens1, st)
    ELSE LET r1 == GenerateHtml(orth, list, FileName(orth), opens1, st)
             r2 == GenerateHtml(orth, list, FileName(Converted(orth)), opens2, r1)
         IN  IF r1.err # "" THEN r1
             ELSE [r2 EXCEPT !.ret = PyOr(r1.ret, r2.ret)]

\* one iteration of "for orth in sorted(entries.keys())"
GenerateOrth ==
    /\ pc = "render"
    /\ k <= Len(keys)
    /\ \E opens1, opens2 \in BOOLEAN :
         LET r == GenerateOrthCall(keys[k], EntryList(keys[k]), opens1, opens2,
                                   [disk |-> disk, stderr |-> stderr])
         IN  /\ disk' = r.disk
             /\ stderr' = r.stderr
             /\ IF r.err # ""
                THEN /\ pc' = "crashed" /\ crash' = r.err
                     /\ UNCHANGED <<k, succ>>
                ELSE /\ succ' = succ + r.ret /\ k' = k + 1
                     /\ UNCHANGED <<pc, crash>>
    /\ UNCHANGED <<element, output, prefix, files, doc, body, cursor, objs,
                   entries, keys, catVars, done>>

\* the percentage line; succ * 100.0 / total raises for an empty index
Report ==
    /\ pc = "render"
    /\ k > Len(keys)
    /\ IF Len(keys) = 0
       THEN /\ pc' = "crashed" /\ crash' = "ZeroDivisionError"
            /\ UNCHANGED stderr
       ELSE /\ stderr' = Append(stderr, [kind |-> "pct",
                                         name |-> << (succ * 100) \div Len(keys) >>])
            /\ pc' = "copy"
            /\ UNCHANGED crash
    /\ UNCHANGED <<element, output, prefix, files, doc, body, cursor, objs,
                   entries, keys, k, succ, disk, catVars, done>>

\* shutil.copy("dict.css", ...)
CopyCss ==
    /\ pc = "copy"
    /\ done' = Append(done, "css")
    /\ pc' = "done"
    /\ UNCHANGED <<crash, element, output, prefix, files, doc, body, cursor,
                   objs, entries, keys, k, succ, stderr, disk, catVars>>

InitDict ==
    /\ pc = "parsed"
    /\ crash = ""
    /\ files = << >>
    /\ doc \in Bodies(DictLabels, MaxDictNodes)
    /\ body = doc
    /\ cursor = 1
    /\ element = << >> /\ output = << >> /\ prefix = << >>
    /\ objs = << >> /\ entries = << >> /\ keys = << >>
    /\ k = 0 /\ succ = 0 /\ stderr = << >> /\ disk = << >>
    /\ NoCatalog /\ done = << >>

NextDict ==
    \/ PreprocessBody
    \/ CollectEntry
    \/ BeginRender
    \/ GenerateOrth
    \/ Report
    \/ CopyCss

SpecDict == InitDict /\ [][NextDict]_vars

\* the aggregation loop, or anything after it, is where the program is
Aggregating == pc \in {"normalized", "render", "copy", "done"}

\* how often the DictEntry object ref is in a bucket
Occurrences(bucket, ref) == Cardinality({i \in 1..Len(bucket) : bucket[i] = ref})

\* C5: every Entry is in the index once per orthographic form it declares:
\* an Entry with N spellings is under N keys, exactly once in each of those
\* buckets and in no other bucket; an Entry without orthography is in none.
C5_OncePerForm ==
    Aggregating =>
        \A ref \in 1..Len(objs) :
            LET orth == objs[ref].val.orth
                forms == {orth[i] : i \in 1..Len(orth)}
                under == {key \in DOMAIN entries : Occurrences(entries[key], ref) > 0}
            IN  /\ under = forms
                /\ Cardinality(under) = Len(orth)
                /\ \A key \in under : Occurrences(entries[key], ref) = 1

\* the position of the element among the children of the normalized body
PosInBody(id) == CHOOSE i \in 1..Len(body.kids) : body.kids[i].id = id

\* C6 (as amended): in every bucket the entries are in insertion order, which
\* is the order of their elements among the children of the normalized body.
C6_BucketsInBodyOrder ==
    Aggregating =>
        \A key \in DOMAIN entries :
            \A i, j \in 1..Len(entries[key]) :
                (i < j /\ entries[key][i] # entries[key][j]) =>
                    PosInBody(objs[entries[key][i]].elem)
                        < PosInBody(objs[entries[key][j]].elem)

\* a bucket holds an entry promoted out of a superEntry after an entry that
\* follows it in the source document
C6_Witness ==
    /\ pc = "render"
    /\ \E key \in DOMAIN entries :
         /\ Len(entries[key]) = 2
         /\ objs[entries[key][1]].elem > objs[entries[key][2]].elem

\* C6 (as stated): in every bucket the entries are in the order of the source
\* document: an entry that comes first in the document comes first in the
\* bucket.
C6_BucketsInSourceOrder ==
    Aggregating =>
        \A key \in DOMAIN entries :
            \A i, j \in 1..Len(entries[key]) :
                (i < j /\ entries[key][i] # entries[key][j]) =>
                    objs[entries[key][i]].elem < objs[entries[key][j]].elem

Warnings(err) == Cardinality({i \in 1..Len(err) : err[i].kind = "warn"})

HasSpace(orth) == \E i \in 1..Len(orth) : orth[i] = Space

\* the number of files generate_orth() writes for this headword
FilesOf(orth) == IF HasSpace(orth) THEN 2 ELSE 1

\* C7 (as amended): a failed file creation is caught and logged as a warning
\* and the loop goes on; the headword adds 0 to the success count exactly
\* when every file written for it failed, so a headword with spaces one of
\* whose two files was written adds 1.
C7_FailureCounted ==
    [][ (pc = "render" /\ k <= Len(keys)) =>
          LET failed == Warnings(stderr') - Warnings(stderr)
          IN  /\ pc' = "render" =>
                    /\ k' = k + 1
                    /\ succ' = succ + (IF failed = FilesOf(keys[k]) THEN 0 ELSE 1)
              /\ failed = FilesOf(keys[k]) => pc' = "render" ]_vars

\* a headword with spaces was counted with one of its two files failed
C7_Witness ==
    /\ pc = "render"
    /\ k = 2
    /\ HasSpace(keys[1])
    /\ Warnings(stderr) = 1
    /\ succ = 1

\* C7 (as stated): a headword with a failed file creation adds 0 to the
\* success count, also when it has spaces and writes two files.
C7_AnyFailureAddsZero ==
    [][ (pc = "render" /\ k <= Len(keys) /\ pc' = "render"
         /\ Warnings(stderr') > Warnings(stderr)) => succ' = succ ]_vars

\* C8: once the render pass has finished with every file write succeeding,
\* each headword with a space has two files, named with the space and with
\* underscores, both holding the rendering of that headword's entry list.
C8_SpaceFilesIdentical ==
    (/\ \/ pc = "render" /\ k > Len(keys)
        \/ pc \in {"copy", "done"}
     /\ Warnings(stderr) = 0) =>
        \A orth \in DOMAIN entries :
            HasSpace(orth) =>
                /\ FileName(orth) \in DOMAIN disk
                /\ FileName(Converted(orth)) \in DOMAIN disk
                /\ disk[FileName(orth)] = Page(orth, EntryList(orth)).lines
                /\ disk[FileName(Converted(orth))] = disk[FileName(orth)]

\* C10: generate_html() ends by returning 1 or 0 for every entry list the
\* extractor can produce: no exception other than the file errors it catches
\* ends the render loop.
C10_RenderingTotal == ~(pc = "crashed" /\ crash = "TypeError")

----------------------------------------------------------------------------
(* The catalog loop.  A dictionary name is a sequence of characters.  What *)
(* is done for a release is three steps here (fetch and extract the        *)
(* archive; parse and normalize; aggregate, render and copy the css), each *)
(* of which can end the process with an uncaught exception.                *)

\* the catalog holds at most this many descriptors
MaxCatalog == 2

\* the map of create_pair()
LangMap ==
    LET table == {
      << << "a", "f", "r" >>, << "a", "f" >> >>, << << "a", "r", "a" >>, << "a", "r" >> >>,
      << << "b", "r", "e" >>, << "b", "r" >> >>, << << "b", "u", "l" >>, << "b", "g" >> >>,
      << << "c", "a", "t" >>, << "c", "a" >> >>, << << "c", "e", "s" >>, << "c", "s" >> >>,
      << << "c", "y", "m" >>, << "c", "y" >> >>, << << "d", "a", "n" >>, << "d", "a" >> >>,
      << << "d", "e", "u" >>, << "d", "e" >> >>, << << "e", "l", "l" >>, << "e", "l" >> >>,
      << << "e", "n", "g" >>, << "e", "n" >> >>, << << "e", "p", "o" >>, << "e", "o" >> >>,
      << << "f", "i", "n" >>, << "f", "i" >> >>, << << "f", "r", "a" >>, << "f", "r" >> >>,
      << << "g", "l", "a" >>, << "g", "d" >> >>, << << "g", "l", "e" >>, << "g", "a" >> >>,
      << << "h", "i", "n" >>, << "h", "i" >> >>, << << "h", "r", "v" >>, << "h", "r" >> >>,
      << << "h", "u", "n" >>, << "h", "u" >> >>, << << "i", "n", "d" >>, << "i", "d" >> >>,
      << << "i", "s", "l" >>, << "i", "s" >> >>, << << "i", "t", "a" >>, << "i", "t" >> >>,
      << << "j", "p", "n" >>, << "j", "a" >> >>, << << "k", "u", "r" >>, << "k", "u" >> >>,
      << << "l", "a", "t" >>, << "l", "a" >> >>, << << "l", "i", "t" >>, << "l", "t" >> >>,
      << << "m", "k", "d" >>, << "m", "k" >> >>, << << "m", "l", "g" >>, << "m", "g" >> >>,
      << << "n", "l", "d" >>, << "n", "l" >> >>, << << "n", "n", "o" >>, << "n", "n" >> >>,
      << << "n", "o", "b" >>, << "n", "b" >> >>, << << "n", "o", "r" >>, << "n", "o" >> >>,
      << << "o", "c", "i" >>, << "o", "c" >> >>, << << "p", "o", "l" >>, << "p", "l" >> >>,
      << << "p", "o", "r" >>, << "p", "t" >> >>, << << "r", "o", "m" >>, << "r", "o" >> >>,
      << << "r", "u", "s" >>, << "r", "u" >> >>, << << "s", "a", "n" >>, << "s", "a" >> >>,
      << << "s", "l", "k" >>, << "s", "k" >> >>, << << "s", "l", "v" >>, << "s", "l" >> >>,
      << << "s", "p", "a" >>, << "e", "s" >> >>, << << "s", "r", "p" >>, << "s", "r" >> >>,
      << << "s", "w", "e" >>, << "s", "v" >> >>, << << "s", "w", "h" >>, << "s", "w" >> >>,
      << << "t", "u", "r" >>, << "t", "r" >> >>, << << "w", "o", "l" >>, << "w", "o" >> >>,
      << << "z", "h", "o" >>, << "z", "h" >> >> }
    IN  [c \in {t[1] : t \in table} |-> (CHOOSE t \in table : t[1] = c)[2]]

\* create_pair() with the test of dst_lang left out
CreatePairSrcOnly(src_lang, dst_lang) ==
    IF src_lang \notin DOMAIN LangMap THEN [exit |-> 255, pair |-> << >>]
    ELSE [exit |-> -1,
          pair |-> LangMap[src_lang] \o << "-" >>
                   \o (IF dst_lang \in DOMAIN LangMap THEN LangMap[dst_lang]
                       ELSE dst_lang)]

\* create_pair(src_lang, dst_lang): sys.exit(-1) ends the process with
\* status 255, shown as exit; otherwise exit is -1 and pair is the result
CreatePair(src_lang, dst_lang) ==
    IF src_lang \notin DOMAIN LangMap THEN [exit |-> (-1) % 256, pair |-> << >>]
    ELSE IF dst_lang \notin DOMAIN LangMap THEN [exit |-> (-1) % 256, pair |-> << >>]
    ELSE [exit |-> -1, pair |-> LangMap[src_lang] \o << "-" >> \o LangMap[dst_lang]]

RECURSIVE Split(_, _)
\* name.split(sep)
Split(name, sep) ==
    IF \A i \in 1..Len(name) : name[i] # sep THEN << name >>
    ELSE LET i == CHOOSE j \in 1..Len(name) :
                    name[j] = sep /\ \A h \in 1..(j - 1) : name[h] # sep
         IN  << SubSeq(name, 1, i - 1) >> \o Split(SubSeq(name, i + 1, Len(name)), sep)

StartsWith(name, pre) ==
    Len(name) >= Len(pre) /\ SubSeq(name, 1, Len(pre)) = pre

EndsWith(name, suf) ==
    Len(name) >= Len(suf) /\ SubSeq(name, Len(name) - Len(suf) + 1, Len(name)) = suf

\* the four "continue" tests of the catalog loop
Skipped(d) ==
    \/ d.software
    \/ d.name = << "c", "k", "b", "-", "k", "m", "r" >>
    \/ StartsWith(d.name, << "k", "h", "a" >>)
    \/ EndsWith(d.name, << "a", "s", "t" >>)

Release(platform) == [platform |-> platform, version |-> "1.0"]

Dict(name) ==
    [software |-> FALSE, name |-> name,
     releases |-> << Release("dictd"), Release("src") >>]

\* the descriptors of the catalogs: the tools entry, the skipped names, two
\* dictionaries of mapped languages, one with an unmapped source (ast), one
\* with an unmapped destination (ron) and a name without a hyphen
Descriptors ==
    { [software |-> TRUE, name |-> << >>, releases |-> << >>],
      Dict(<< "c", "k", "b", "-", "k", "m", "r" >>),
      Dict(<< "k", "h", "a", "-", "d", "e", "u" >>),
      Dict(<< "s", "p", "a", "-", "a", "s", "t" >>),
      Dict(<< "d", "e", "u", "-", "e", "n", "g" >>),
      Dict(<< "e", "n", "g", "-", "p", "o", "l" >>),
      Dict(<< "a", "s", "t", "-", "e", "n", "g" >>),
      Dict(<< "e", "n", "g", "-", "r", "o", "n" >>),
      Dict(<< "d", "e", "u" >>) }

InitCatalog ==
    /\ pc = "catalog"
    /\ crash = ""
    /\ database \in UNION { [1..n -> Descriptors] : n \in 0..MaxCatalog }
    /\ di = 1
    /\ pair = << >> /\ ri = 0 /\ status = -1 /\ cache = {}
    /\ done = << >>
    /\ element = << >> /\ output = << >> /\ prefix = << >>
    /\ files = << >> /\ doc = << >> /\ body = << >> /\ cursor = 0
    /\ objs = << >> /\ entries = << >> /\ keys = << >> /\ k = 0 /\ succ = 0
    /\ stderr = << >> /\ disk = << >>

dictVars == <<element, output, prefix, files, doc, body, cursor, objs, entries,
              keys, k, succ, stderr, disk>>

\* the head of one iteration of "for dict in database": the skip tests, the
\* split of the name and create_pair()
NextDescriptor ==
    /\ pc = "catalog"
    /\ di <= Len(database)
    /\ LET d == database[di]
           parts == Split(d.name, "-")
           r == CreatePair(parts[1], parts[2])
       IN  IF Skipped(d)
           THEN /\ di' = di + 1
                /\ UNCHANGED <<pc, crash, pair, ri, status>>
           ELSE IF Len(parts) < 2
           THEN /\ pc' = "crashed" /\ crash' = "IndexError" /\ status' = 1
                /\ UNCHANGED <<di, pair, ri>>
           ELSE IF r.exit # -1
           THEN /\ pc' = "exited" /\ status' = r.exit
                /\ UNCHANGED <<crash, di, pair, ri>>
           ELSE /\ pc' = "releases" /\ pair' = r.pair /\ ri' = 1
                /\ UNCHANGED <<crash, di, status>>
    /\ UNCHANGED <<dictVars, database, cache, done>>

\* an iteration of "for release in dict[releases]" for another platform
OtherRelease ==
    /\ pc = "releases"
    /\ ri <= Len(database[di].releases)
    /\ database[di].releases[ri].platform # "src"
    /\ ri' = ri + 1
    /\ UNCHANGED <<pc, crash, dictVars, database, di, pair, status, cache, done>>

Step(what) == [dict |-> di, pair |-> pair, what |-> what]

\* download the archive unless data/ holds it, and extract it
FetchArchive ==
    /\ pc = "releases"
    /\ ri <= Len(database[di].releases)
    /\ database[di].releases[ri].platform = "src"
    /\ LET path == << pair, database[di].releases[ri].version >>
       IN  \E ok \in BOOLEAN :
             IF path \in cache \/ ok
             THEN /\ cache' = cache \cup {path}
                  /\ done' = Append(done, Step(IF path \in cache THEN "cached"
                                               ELSE "download"))
                  /\ pc' = "extracted"
                  /\ UNCHANGED <<crash, status>>
             ELSE /\ pc' = "crashed" /\ crash' = "URLError" /\ status' = 1
                  /\ UNCHANGED <<cache, done>>
    /\ UNCHANGED <<dictVars, database, di, pair, ri>>

\* parse the TEI file and preprocess its body
NormalizeDict ==
    /\ pc = "extracted"
    /\ \E ok \in BOOLEAN :
         IF ok
         THEN /\ done' = Append(done, Step("normalize"))
              /\ pc' = "preprocessed"
              /\ UNCHANGED <<crash, status>>
         ELSE /\ pc' = "crashed" /\ crash' = "ValueError" /\ status' = 1
              /\ UNCHANGED done
    /\ UNCHANGED <<dictVars, catVars>>

\* aggregate, render the pages, report and copy the css
RenderDict ==
    /\ pc = "preprocessed"
    /\ \E ok \in BOOLEAN :
         IF ok
         THEN /\ done' = Append(done, Step("render"))
              /\ pc' = "releases"
              /\ ri' = ri + 1
              /\ UNCHANGED <<crash, status>>
         ELSE /\ pc' = "crashed" /\ crash' = "TypeError" /\ status' = 1
              /\ UNCHANGED <<ri, done>>
    /\ UNCHANGED <<dictVars, database, di, pair, cache>>

\* the releases of the descriptor are exhausted
EndOfReleases ==
    /\ pc = "releases"
    /\ ri > Len(database[di].releases)
    /\ pc' = "catalog"
    /\ di' = di + 1
    /\ UNCHANGED <<crash, dictVars, database, pair, ri, status, cache, done>>

\* the catalog is exhausted: the program ends
EndOfCatalog ==
    /\ pc = "catalog"
    /\ di > Len(database)
    /\ pc' = "finished"
    /\ status' = 0
    /\ UNCHANGED <<crash, dictVars, database, di, pair, ri, cache, done>>

NextCatalog ==
    \/ NextDescriptor
    \/ OtherRelease
    \/ FetchArchive
    \/ NormalizeDict
    \/ RenderDict
    \/ EndOfReleases
    \/ EndOfCatalog

SpecCatalog == InitCatalog /\ [][NextCatalog]_vars

\* a source or destination code of the descriptor is not in the map
UnmappedCode(d) ==
    /\ Len(Split(d.name, "-")) >= 2
    /\ \E i \in 1..2 : Split(d.name, "-")[i] \notin DOMAIN LangMap

\* C9: when the catalog loop reaches a dictionary that is not skipped and has
\* a source or destination code outside the mapping table, the process ends
\* at once with a nonzero status: nothing is fetched, normalized or rendered
\* for that dictionary or a later one, and nothing happens afterwards.
C9_UnknownCodeExits ==
    [][ /\ (/\ pc = "catalog" /\ di <= Len(database)
            /\ ~Skipped(database[di]) /\ UnmappedCode(database[di]))
           => (/\ pc' = "exited" /\ status' > 0
               /\ done' = done /\ cache' = cache
               /\ \A i \in 1..Len(done) : done[i].dict < di)
        /\ pc # "exited" ]_vars

\* the process exited on the second descriptor after a first dictionary
\* was rendered
C9_Witness ==
    /\ pc = "exited"
    /\ status = 255
    /\ di = 2
    /\ Len(done) = 3

=============================================================================
